---- MODULE Spec2Model ----
(***************************************************************************)
(* Frame synchronisation and command submission of the Vulkan renderer:    *)
(* App (src/main.rs) drives VulkanRenderer::draw_frame                     *)
(* (src/renderer/renderer.rs) against VulkanSyncObjects                    *)
(* (src/vulkan/sync.rs) and VulkanCommandPool (src/vulkan/command_pool.rs).*)
(* The CPU side is the single render thread, one action per Vulkan call of *)
(* draw_frame; the graphics queue and the presentation engine run          *)
(* concurrently with it.                                                   *)
(***************************************************************************)
EXTENDS Integers, Sequences, FiniteSets, TLC

\* ---------------------------------------------------------------- bounds
MinImages == 2      \* smallest swapchain image count the driver hands out
MaxImages == 4      \* largest swapchain image count the driver hands out
MaxCalls == 5       \* draw_frame calls explored, with failing Vulkan calls
MaxFailures == 1    \* Vulkan calls that report an error
LongCalls == 7      \* draw_frame calls explored when no Vulkan call fails
MaxFormats == 2     \* longest list of surface formats the surface reports
SwapchainCalls == 1 \* draw_frame calls explored over all reported format lists
MaxModes == 2       \* longest list of present modes the surface reports
MaxMinImageCount == 2  \* largest min_image_count the surface reports
MaxStages == 3      \* most shader stages added to one pipeline builder

\* ------------------------------------------------------- program constants
\* VulkanRenderer::new: max_frames_in_flight: 3
RendererMaxFramesInFlight == 3

\* image_index before acquire_next_image has returned: no image
NoImage == 0 - 1

\* VulkanSwapchain.format before VulkanSwapchain::new has returned
NoFormat == [format |-> "UNDEFINED", color_space |-> "UNDEFINED"]

\* vk::SurfaceFormatKHR values a surface may report
SurfaceFormats ==
    [ format : {"B8G8R8A8_SRGB", "R8G8B8A8_SRGB", "B8G8R8A8_UNORM"},
      color_space : {"SRGB_NONLINEAR", "EXTENDED_SRGB_LINEAR"} ]

\* The lists surface.get_formats may return, up to n entries.
FormatLists(n) == UNION {[1 .. k -> SurfaceFormats] : k \in 0 .. n}

\* A desktop surface: B8G8R8A8_SRGB first, or no format at all.
TypicalFormatLists ==
    { << >>, << [format |-> "B8G8R8A8_SRGB", color_space |-> "SRGB_NONLINEAR"] >> }

\* vk::PresentModeKHR values a surface may report
PresentModes == {"IMMEDIATE", "MAILBOX", "FIFO"}

\* The lists surface.get_present_modes may return, up to n entries.
ModeLists(n) == UNION {[1 .. k -> PresentModes] : k \in 0 .. n}

\* u32::MAX, the width of vk::SurfaceCapabilitiesKHR.current_extent that
\* means "the swapchain decides". The value is only compared for equality
\* and lies above every extent a surface or a window reports here.
U32Max == 2147483647

Extent2D(w, h) == [width |-> w, height |-> h]

\* current_extent of a surface that leaves the extent to the swapchain
ClientDecides == Extent2D(U32Max, U32Max)

\* Lower and upper bounds a surface reports per extent component, and the
\* inner sizes a window reports.
MinExtentValues == {1, 800}
MaxExtentValues == {800, 4096}
WindowValues == {640, 1024, 10000}

\* vk::SurfaceCapabilitiesKHR as the Vulkan specification allows them:
\* min_image_count >= 1; max_image_count = 0 (no limit) or >= min_image_count;
\* min_image_extent <= max_image_extent; current_extent either the special
\* value in both components or an extent within the bounds.
SurfaceCapabilities(n) ==
    { c \in [ min_image_count : 1 .. n,
              max_image_count : 0 .. (n + 1),
              current_extent : {ClientDecides}
                               \cup [width : MaxExtentValues, height : MaxExtentValues],
              min_image_extent : [width : MinExtentValues, height : MinExtentValues],
              max_image_extent : [width : MaxExtentValues, height : MaxExtentValues] ] :
        /\ c.max_image_count = 0 \/ c.max_image_count >= c.min_image_count
        /\ c.current_extent = ClientDecides \/ c.current_extent = c.max_image_extent }

\* window.inner_size()
WindowSizes == [width : WindowValues, height : WindowValues]

\* A desktop surface: the window manager fixes the extent, FIFO and MAILBOX
\* are offered, and one image more than the minimum is available.
TypicalCapabilities ==
    [ min_image_count |-> MinImages - 1,
      max_image_count |-> 0,
      current_extent |-> Extent2D(800, 800),
      min_image_extent |-> Extent2D(800, 800),
      max_image_extent |-> Extent2D(800, 800) ]
TypicalModes == << "FIFO", "MAILBOX" >>
TypicalWindowSize == Extent2D(1024, 1024)

\* VulkanSwapchain fields before VulkanSwapchain::new has returned
NoExtent == Extent2D(0, 0)
NoMode == "UNDEFINED"

\* VulkanRenderPass::new, the one colour attachment: its description, the
\* layout the subpass uses it in (color_attachment_ref), and the format.
ColorAttachment(format) ==
    [ format |-> format,
      samples |-> "TYPE_1",
      load_op |-> "CLEAR",
      store_op |-> "STORE",
      initial_layout |-> "UNDEFINED",
      subpass_layout |-> "COLOR_ATTACHMENT_OPTIMAL",
      final_layout |-> "PRESENT_SRC_KHR" ]

\* The layouts a swapchain image is in, as far as this program moves it.
ImageLayouts == {"UNDEFINED", "COLOR_ATTACHMENT_OPTIMAL", "PRESENT_SRC_KHR"}

\* The largest integer up to which every integer is an f32 (2^24).
F32Exact == 16777216

\* `n as f32` for a u32: exact up to 2^24, beyond that rounded to the nearest
\* value with a 24-bit significand, ties to even.
RECURSIVE F32Ulp(_, _)
F32Ulp(n, ulp) == IF n < F32Exact * ulp THEN ulp ELSE F32Ulp(n, 2 * ulp)
as_f32(n) ==
    LET ulp == F32Ulp(n, 1)
        q == n \div ulp
        r == n % ulp
    IN  IF 2 * r < ulp THEN q * ulp
        ELSE IF 2 * r > ulp THEN (q + 1) * ulp
        ELSE IF q % 2 = 0 THEN q * ulp ELSE (q + 1) * ulp

Rect2D(x, y, e) == [offset |-> [x |-> x, y |-> y], extent |-> e]

\* Nothing recorded yet in this draw_frame call: empty rectangles.
NoRecording ==
    [ render_area |-> Rect2D(0, 0, NoExtent),
      viewport |-> [ x |-> 0, y |-> 0, width |-> 0, height |-> 0,
                     min_depth |-> 0, max_depth |-> 0 ],
      scissor |-> Rect2D(0, 0, NoExtent) ]

\* Shader stages of with_vertex_spv and with_fragment_spv
ShaderStages == {"VERTEX", "FRAGMENT"}

\* VulkanPipelineBuilder::new: render_pass None, extent None, no shader
\* entry. result is how build() (or a failing with_shader_spv) ended,
\* objects the Vulkan objects created through the builder that still exist.
NewBuilder ==
    [ render_pass |-> "None",
      extent |-> "None",
      shader_entries |-> << >>,
      result |-> "none",
      objects |-> {} ]

\* No builder exists.
NoBuilder == [NewBuilder EXCEPT !.result = "no builder"]

VARIABLES
    appState,        \* App: "new" | "running" | "closing" | "exited" | "panicked"
    numImages,       \* swapchain.images.len()
    current_frame,   \* VulkanRenderer.current_frame
    pc,              \* position of the render thread inside draw_frame
    image_index,     \* image index returned by acquire_next_image in this call
    calls,           \* number of draw_frame calls started
    steps,           \* Vulkan calls issued by the current draw_frame call, in order
    suboptimal,      \* a Vulkan call of the current (last) draw_frame call reported SUBOPTIMAL
    in_flight_fences,            \* slot -> signaled?
    image_available_semaphores,  \* slot -> [sig, pend]
    render_finished_semaphores,  \* slot -> signaled?
    command_buffers, \* buffer index -> "initial" | "executable" | "invalid"
    acquired,        \* images the application holds (acquired, not yet presented)
    gpuQ,            \* graphics queue: submissions not yet completed, oldest first
    presentQ,        \* present queue: present requests not yet executed, oldest first
    slotLog,         \* slots of the draw_frame calls that returned Ok, in order
    errorsReported,  \* number of "Failed to draw frame" reports of render_frame
    failures,        \* Vulkan calls that reported an error so far
    budget,          \* [calls, failures]: how far this exploration goes
    deviceLost,      \* the device stopped after executing a clobbered command buffer
    commands,        \* commands issued by the record_command_buffer of this call
    owned,           \* fields of App that are Some and not yet dropped, in drop order
    destroyed,       \* Vulkan objects destroyed so far, in order
    available_formats,  \* what surface.get_formats reports
    surface_format,  \* VulkanSwapchain.format
    available_modes, \* what surface.get_present_modes reports
    capabilities,    \* what surface.get_capabilities reports
    window_size,     \* window.inner_size() handed to VulkanSwapchain::new
    present_mode,    \* present_mode of the vk::SwapchainCreateInfoKHR
    extent,          \* VulkanSwapchain.extent
    image_count,     \* min_image_count of the vk::SwapchainCreateInfoKHR
    swapchain_result, \* VulkanSwapchain::new: "none" | "Ok" | "Err" | "panic"
    created,         \* Vulkan objects App::initalize created and did not destroy itself
    image_layout,    \* swapchain image -> the layout it is in
    recorded,        \* render area, viewport and scissor recorded by this call
    framebuffer_extent, \* width and height the framebuffers were created with
    builder,         \* the VulkanPipelineBuilder being filled in, and how build() ended
    framebuffers     \* VulkanFramebuffers.framebuffers: index -> image view it wraps

vars == << appState, numImages, current_frame, pc, image_index, calls, steps,
           suboptimal, in_flight_fences, image_available_semaphores,
           render_finished_semaphores, command_buffers, acquired, gpuQ, presentQ,
           slotLog, errorsReported, failures, budget, deviceLost, commands, owned,
           destroyed, available_formats, surface_format, available_modes,
           capabilities, window_size, present_mode, extent, image_count,
           swapchain_result, created, image_layout, recorded,
           framebuffer_extent, builder, framebuffers >>

\* Swapchain image indices. VulkanSyncObjects::new and VulkanCommandPool::new
\* are both given swapchain.images.len(): one sync slot and one command
\* buffer per image.
Images == 0 .. (numImages - 1)

cpuVars == << current_frame, pc, image_index, calls, steps, suboptimal, slotLog,
              errorsReported >>
syncVars == << in_flight_fences, image_available_semaphores,
               render_finished_semaphores >>
queueVars == << gpuQ, presentQ >>
teardownVars == << owned, destroyed, created >>
surfaceVars == << available_formats, available_modes, capabilities, window_size >>
createdVars == << surface_format, present_mode, extent, image_count >>
swapchainVars == << surfaceVars, createdVars, swapchain_result, framebuffer_extent,
                   framebuffers >>

\* An image is free when no present request for it is still queued.
ImageInPresentQ(q, i) == \E k \in 1 .. Len(q) : q[k].image = i

\* A command buffer is pending while a submission that references it is queued.
CommandBufferPending(b) == \E k \in 1 .. Len(gpuQ) : gpuQ[k].cmd = b

\* An injected Vulkan error is available while the budget lasts; once the
\* device is lost every call fails.
MayFail == failures < budget.failures
Fail == failures' = failures + 1

\* ------------------------------------------------------------------ Init
\* App::new: every field None; nothing is constructed before resumed().
InitApp ==
    /\ appState = "new"
    /\ numImages = 0
    /\ current_frame = 0
    /\ pc = "idle"
    /\ image_index = NoImage
    /\ calls = 0
    /\ steps = << >>
    /\ suboptimal = FALSE
    /\ in_flight_fences = << >>
    /\ image_available_semaphores = << >>
    /\ render_finished_semaphores = << >>
    /\ command_buffers = << >>
    /\ acquired = {}
    /\ gpuQ = << >>
    /\ presentQ = << >>
    /\ slotLog = << >>
    /\ errorsReported = 0
    /\ failures = 0
    /\ deviceLost = FALSE
    /\ commands = << >>
    /\ owned = << >>
    /\ destroyed = << >>
    /\ surface_format = NoFormat
    /\ present_mode = NoMode
    /\ extent = NoExtent
    /\ image_count = 0
    /\ swapchain_result = "none"
    /\ created = {}
    /\ image_layout = << >>
    /\ recorded = NoRecording
    /\ framebuffer_extent = NoExtent
    /\ framebuffers = << >>

\* App::new: no pipeline builder exists outside App::initalize.
InitNoBuilder == builder = NoBuilder

\* The surface of a desktop window.
TypicalSurface ==
    /\ available_modes = TypicalModes
    /\ capabilities = TypicalCapabilities
    /\ window_size = TypicalWindowSize

Init ==
    /\ InitApp
    /\ budget = [calls |-> MaxCalls, failures |-> MaxFailures]
    /\ available_formats \in TypicalFormatLists
    /\ TypicalSurface
    /\ InitNoBuilder

\* The same start, exploring more frames with every Vulkan call succeeding.
InitLong ==
    /\ InitApp
    /\ budget = [calls |-> LongCalls, failures |-> 0]
    /\ available_formats \in TypicalFormatLists
    /\ TypicalSurface
    /\ InitNoBuilder

\* The same start over every list of formats the surface may report.
InitSwapchain ==
    /\ InitApp
    /\ budget = [calls |-> SwapchainCalls, failures |-> MaxFailures]
    /\ available_formats \in FormatLists(MaxFormats)
    /\ TypicalSurface
    /\ InitNoBuilder

\* The same start over every extent the surface and the window may report.
InitExtent ==
    /\ InitApp
    /\ budget = [calls |-> SwapchainCalls, failures |-> MaxFailures]
    /\ available_formats \in TypicalFormatLists
    /\ available_modes = TypicalModes
    /\ capabilities \in {c \in SurfaceCapabilities(MinImages - 1) :
                            /\ c.min_image_count = MinImages - 1
                            /\ c.max_image_count = 0}
    /\ window_size \in WindowSizes
    /\ InitNoBuilder

\* VulkanPipelineBuilder::new(&logical_device) alone: the calls that follow
\* it are explored in every order and number.
InitBuilder ==
    /\ InitApp
    /\ budget = [calls |-> 0, failures |-> MaxFailures]
    /\ available_formats \in TypicalFormatLists \ { << >> }
    /\ TypicalSurface
    /\ builder = NewBuilder

\* VulkanSwapchain::new alone, over every present mode list, capability
\* record and window size the surface and the window may report.
InitSurface ==
    /\ InitApp
    /\ budget = [calls |-> 0, failures |-> MaxFailures]
    /\ available_formats \in TypicalFormatLists
    /\ available_modes \in ModeLists(MaxModes)
    /\ capabilities \in SurfaceCapabilities(MaxMinImageCount)
    /\ window_size \in WindowSizes
    /\ InitNoBuilder

\* --------------------------------------------------------- initialisation
\* VulkanSyncObjects::new: fences are created SIGNALED, semaphores unsignaled,
\* one of each per slot.
NewSyncFences(n) == [s \in 0 .. (n - 1) |-> TRUE]
NewImageAvailable(n) == [s \in 0 .. (n - 1) |-> [sig |-> FALSE, pend |-> {}]]
NewRenderFinished(n) == [s \in 0 .. (n - 1) |-> FALSE]
\* Faulty variant of NewCommandBuffers: one buffer per frame slot of the
\* renderer instead of one per image.
NewCommandBuffers_PerSlot(n) ==
    [b \in 0 .. (RendererMaxFramesInFlight - 1) |-> "initial"]

\* VulkanCommandPool::new: buffer_count buffers in the initial state;
\* App::initalize passes swapchain.images.len().
NewCommandBuffers(n) == [b \in 0 .. (n - 1) |-> "initial"]

\* VulkanFramebuffers::new: one framebuffer per entry of
\* swapchain.image_views, in order.
NewFramebuffers(n) == [f \in 0 .. (n - 1) |-> f]

\* VulkanSwapchain::choose_surface_format, the `for format in
\* &available_formats` loop from position k on: the position of the first
\* entry that is B8G8R8A8_SRGB with SRGB_NONLINEAR, 0 when the loop runs out.
RECURSIVE FirstPreferredFormat(_, _)
FirstPreferredFormat(formats, k) ==
    IF k > Len(formats) THEN 0
    ELSE IF /\ formats[k].format = "B8G8R8A8_SRGB"
            /\ formats[k].color_space = "SRGB_NONLINEAR"
         THEN k
         ELSE FirstPreferredFormat(formats, k + 1)

\* Ok(available_formats[0]) after the loop indexes an empty Vec: a panic.
ChooseSurfaceFormatPanics(formats) ==
    FirstPreferredFormat(formats, 1) = 0 /\ Len(formats) = 0

\* VulkanSwapchain::choose_surface_format on a list it does not panic on.
choose_surface_format(formats) ==
    LET k == FirstPreferredFormat(formats, 1) IN
    IF k > 0 THEN formats[k] ELSE formats[1]

\* Faulty variant of choose_present_mode: the first reported mode is taken.
choose_present_mode_First(modes) ==
    IF modes = << >> THEN "FIFO" ELSE modes[1]

\* VulkanSwapchain::choose_present_mode: the loop returns MAILBOX at the first
\* entry that is MAILBOX; after the loop, FIFO. An empty list is not examined.
choose_present_mode(modes) ==
    IF \E k \in 1 .. Len(modes) : modes[k] = "MAILBOX" THEN "MAILBOX" ELSE "FIFO"

\* u32::clamp(self, min, max), called with min <= max
clamp(v, min, max) == IF v < min THEN min ELSE IF v > max THEN max ELSE v

\* Faulty variant of choose_extent: the window size is taken as it is.
choose_extent_Unclamped(caps, window) ==
    IF caps.current_extent.width /= U32Max THEN caps.current_extent ELSE window

\* VulkanSwapchain::choose_extent: only current_extent.width is compared with
\* u32::MAX.
choose_extent(caps, window) ==
    IF caps.current_extent.width /= U32Max
    THEN caps.current_extent
    ELSE Extent2D(clamp(window.width, caps.min_image_extent.width,
                        caps.max_image_extent.width),
                  clamp(window.height, caps.min_image_extent.height,
                        caps.max_image_extent.height))

\* Faulty variant of RequestedImageCount: the maximum is not looked at.
RequestedImageCount_Uncapped(caps) == caps.min_image_count + 1

\* VulkanSwapchain::new, `let mut image_count = capabilities.min_image_count + 1`
\* and the cap that follows it.
RequestedImageCount(caps) ==
    IF caps.max_image_count > 0 /\ caps.min_image_count + 1 > caps.max_image_count
    THEN caps.max_image_count
    ELSE caps.min_image_count + 1

\* VulkanSwapchain::new returning Ok: the create info carries the chosen
\* format, present mode, extent and image count. Nothing in it looks at
\* whether the list of present modes is empty.
SwapchainCreated ==
    /\ ~ChooseSurfaceFormatPanics(available_formats)
    /\ surface_format' = choose_surface_format(available_formats)
    /\ present_mode' = choose_present_mode(available_modes)
    /\ extent' = choose_extent(capabilities, window_size)
    /\ image_count' = RequestedImageCount(capabilities)
    /\ swapchain_result' = "Ok"

\* VulkanSwapchain::new returning Err: one of the surface queries,
\* create_swapchain, get_swapchain_images or create_image_view reported an
\* error.
SwapchainFailed ==
    /\ swapchain_result' = "Err"
    /\ UNCHANGED createdVars

\* VulkanSwapchain::new panicking in choose_surface_format.
SwapchainPanicked ==
    /\ ChooseSurfaceFormatPanics(available_formats)
    /\ swapchain_result' = "panic"
    /\ UNCHANGED createdVars

\* VulkanSwapchain::new on its own: the three ways it ends.
AppUntouched ==
    UNCHANGED << appState, budget, builder, image_layout, teardownVars, surfaceVars,
                 framebuffer_extent, framebuffers, commands,
                    recorded, cpuVars, syncVars,
                 command_buffers, acquired, queueVars, failures, deviceLost >>

VulkanSwapchain_new_ok ==
    /\ appState = "new"
    /\ swapchain_result = "none"
    /\ SwapchainCreated
    /\ numImages' \in {image_count', image_count' + 1}
    /\ AppUntouched

VulkanSwapchain_new_err ==
    /\ appState = "new"
    /\ swapchain_result = "none"
    /\ SwapchainFailed
    /\ UNCHANGED numImages
    /\ AppUntouched

VulkanSwapchain_new_panic ==
    /\ appState = "new"
    /\ swapchain_result = "none"
    /\ SwapchainPanicked
    /\ UNCHANGED numImages
    /\ AppUntouched

\* VulkanPipelineBuilder::set_render_pass, set_extent
SetRenderPass(b) == [b EXCEPT !.render_pass = "Some"]
SetExtent(b) == [b EXCEPT !.extent = "Some"]

\* VulkanPipelineBuilder::with_shader_spv returning Ok: the module is
\* created and pushed onto shader_entries.
WithShaderSpv(b, stage) ==
    [b EXCEPT !.shader_entries = Append(@, stage),
              !.objects = @ \cup {"shader_modules"}]

\* Faulty variant of BuildError: the shader entries are not looked at.
BuildError_NoStageCheck(b) ==
    IF b.render_pass = "None" THEN "render_pass is required"
    ELSE IF b.extent = "None" THEN "extent is required"
    ELSE "none"

\* VulkanPipelineBuilder::build, the checks it starts with: the message it
\* bails with, or "none".
BuildError(b) ==
    IF b.render_pass = "None" THEN "render_pass is required"
    ELSE IF b.extent = "None" THEN "extent is required"
    ELSE IF b.shader_entries = << >> THEN "at least one shader stage is required"
    ELSE "none"

\* The builder App::initalize fills in before it calls build().
AppBuilder ==
    WithShaderSpv(WithShaderSpv(SetExtent(SetRenderPass(NewBuilder)), "VERTEX"),
                  "FRAGMENT")

\* The Vulkan calls of the builder leave App alone.
BuilderStep ==
    UNCHANGED << appState, numImages, budget, image_layout, teardownVars,
                 swapchainVars, commands, recorded, cpuVars, syncVars,
                 command_buffers, acquired, queueVars, deviceLost >>

set_render_pass ==
    /\ builder.result = "none"
    /\ builder' = SetRenderPass(builder)
    /\ UNCHANGED failures
    /\ BuilderStep

set_extent ==
    /\ builder.result = "none"
    /\ builder' = SetExtent(builder)
    /\ UNCHANGED failures
    /\ BuilderStep

\* with_vertex_spv / with_fragment_spv: create_shader_module may fail, and
\* the `?` of the caller then drops the builder with its earlier modules.
with_shader_spv ==
    /\ builder.result = "none"
    /\ Len(builder.shader_entries) < MaxStages
    /\ \/ /\ \E stage \in ShaderStages : builder' = WithShaderSpv(builder, stage)
          /\ UNCHANGED failures
       \/ /\ MayFail /\ Fail
          /\ builder' = [builder EXCEPT !.result = "create_shader_module failed"]
    /\ BuilderStep

\* VulkanPipelineBuilder::build: the three checks, create_pipeline_layout,
\* create_graphics_pipelines, and on success the shader modules destroyed.
build ==
    /\ builder.result = "none"
    /\ \/ /\ BuildError(builder) /= "none"
          /\ builder' = [builder EXCEPT !.result = BuildError(builder)]
          /\ UNCHANGED failures
       \/ /\ BuildError(builder) = "none"
          /\ \/ /\ builder' = [builder EXCEPT
                                   !.result = "Ok",
                                   !.objects = {"pipeline_layout", "pipeline"}]
                /\ UNCHANGED failures
             \/ /\ MayFail /\ Fail
                /\ builder' = [builder EXCEPT
                                   !.result = "create_pipeline_layout failed"]
             \/ /\ MayFail /\ Fail
                /\ builder' = [builder EXCEPT
                                   !.result = "create_graphics_pipelines failed",
                                   !.objects = @ \cup {"pipeline_layout"}]
    /\ BuilderStep

\* App::initalize: the locals in the order they are constructed.
ConstructionOrder ==
    << "window", "instance", "surface", "physical_device", "logical_device",
       "swapchain", "render_pass", "framebuffers", "command_pool", "sync_objects",
       "renderer", "pipeline" >>

\* Faulty variant of AppDropOrder: the command pool declared before the sync
\* objects and the render pass after the swapchain.
AppDropOrderPoolFirst ==
    << "renderer", "pipeline", "command_pool", "sync_objects", "framebuffers",
       "swapchain", "render_pass", "logical_device", "surface", "physical_device",
       "instance", "window" >>

\* struct App: the fields in declaration order, the order they are dropped in.
AppDropOrder ==
    << "renderer", "pipeline", "sync_objects", "command_pool", "framebuffers",
       "render_pass", "swapchain", "logical_device", "surface", "physical_device",
       "instance", "window" >>

\* The Vulkan objects each Drop impl destroys, in order; VulkanRenderer,
\* VulkanPhysicalDevice and VulkanWindow have no Drop impl.
DestroyCalls(field) ==
    CASE field = "pipeline" -> << "pipeline", "pipeline_layout" >>
      [] field = "sync_objects" -> << "image_available_semaphores",
                                      "render_finished_semaphores",
                                      "in_flight_fences" >>
      [] field = "command_pool" -> << "command_pool" >>
      [] field = "framebuffers" -> << "framebuffers" >>
      [] field = "render_pass" -> << "render_pass" >>
      [] field = "swapchain" -> << "image_views", "swapchain" >>
      [] field = "logical_device" -> << "device" >>
      [] field = "surface" -> << "surface" >>
      [] field = "instance" -> << "instance" >>
      [] OTHER -> << >>

\* Locals go out of scope in reverse order of declaration.
Reverse(seq) == [k \in 1 .. Len(seq) |-> seq[Len(seq) + 1 - k]]

\* The destroy calls of dropping the given values one after the other.
RECURSIVE DropAll(_)
DropAll(fields) ==
    IF fields = << >> THEN << >>
    ELSE DestroyCalls(Head(fields)) \o DropAll(Tail(fields))

\* The Vulkan objects the given values own.
ObjectsOf(fields) == {DropAll(fields)[k] : k \in 1 .. Len(DropAll(fields))}

\* The number of locals alive when a constructor of App::initalize returns
\* Err: every constructor can, except VulkanRenderer::new.
FalliblePoints == (0 .. 9) \cup {11}

\* Locals alive when VulkanSwapchain::new runs.
BeforeSwapchain == 5

\* App::resumed -> App::initalize, all constructors succeeding: the swapchain
\* holds n images, command pool and sync objects are sized by images.len(),
\* the renderer starts at current_frame 0.
initalize_ok ==
    /\ appState = "new"
    /\ SwapchainCreated
    /\ BuildError(AppBuilder) = "none"
    /\ owned' = AppDropOrder
    /\ created' = ObjectsOf(ConstructionOrder)
    /\ \E n \in MinImages .. MaxImages :
          /\ n >= image_count'
          /\ numImages' = n
          /\ in_flight_fences' = NewSyncFences(n)
          /\ image_available_semaphores' = NewImageAvailable(n)
          /\ render_finished_semaphores' = NewRenderFinished(n)
          /\ command_buffers' = NewCommandBuffers(n)
          /\ framebuffers' = NewFramebuffers(n)
          /\ image_layout' = [i \in 0 .. (n - 1) |-> "UNDEFINED"]
    /\ framebuffer_extent' = extent'
    /\ current_frame' = 0
    /\ appState' = "running"
    /\ UNCHANGED << budget, builder, destroyed, surfaceVars, commands, recorded,
                    pc, image_index, calls, steps, suboptimal, acquired, gpuQ,
                    presentQ, slotLog, errorsReported, failures, deviceLost >>

\* What a constructor of App::initalize has created when it returns Err,
\* by the number of locals alive: each returns with `?` from the middle of
\* its body, and a handle created before that point belongs to no value
\* with a Drop impl. VulkanSwapchain::new after create_swapchain and in
\* create_image_views; VulkanFramebuffers::new inside its loop;
\* VulkanCommandPool::new at allocate_command_buffers; VulkanSyncObjects::new
\* inside its loop; the pipeline builder in with_fragment_spv (the vertex
\* shader module), in create_pipeline_layout and in create_graphics_pipelines.
LeftBehind(alive) ==
    CASE alive = 5 -> { {}, {"swapchain"}, {"swapchain", "image_views"} }
      [] alive = 7 -> { {}, {"framebuffers"} }
      [] alive = 8 -> { {}, {"command_pool"} }
      [] alive = 9 -> { {}, {"image_available_semaphores"},
                        {"image_available_semaphores", "render_finished_semaphores"},
                        {"image_available_semaphores", "render_finished_semaphores",
                         "in_flight_fences"} }
      [] alive = 11 -> { {}, {"shader_modules"}, {"shader_modules", "pipeline_layout"} }
      [] OTHER -> { {} }

\* Faulty variant of initalize_err: the error is dropped and the application
\* is left as it was before resumed(), ready to initialise again.
initalize_err_Retry ==
    /\ appState = "new"
    /\ \E alive \in FalliblePoints :
          /\ alive > BeforeSwapchain => ~ChooseSurfaceFormatPanics(available_formats)
          /\ destroyed' = DropAll(Reverse(SubSeq(ConstructionOrder, 1, alive)))
          /\ \E left \in LeftBehind(alive) :
                created' = ObjectsOf(SubSeq(ConstructionOrder, 1, alive)) \cup left
          /\ \/ alive < BeforeSwapchain /\ UNCHANGED << createdVars, swapchain_result >>
             \/ alive = BeforeSwapchain /\ SwapchainFailed
             \/ alive > BeforeSwapchain /\ SwapchainCreated
    /\ appState' = "new"
    /\ UNCHANGED << numImages, budget, builder, image_layout, owned, surfaceVars,
                    framebuffer_extent, framebuffers, commands,
                    recorded, cpuVars,
                    syncVars, command_buffers, acquired, queueVars, failures,
                    deviceLost >>

\* App::resumed with initalize returning Err: the locals constructed so far
\* are dropped in reverse order, the error is printed and event_loop.exit()
\* is called; no field of App is set. What the failing constructor had
\* created itself is destroyed by nobody.
initalize_err ==
    /\ appState = "new"
    /\ \E alive \in FalliblePoints :
          /\ alive > BeforeSwapchain => ~ChooseSurfaceFormatPanics(available_formats)
          /\ destroyed' = DropAll(Reverse(SubSeq(ConstructionOrder, 1, alive)))
          /\ \E left \in LeftBehind(alive) :
                created' = ObjectsOf(SubSeq(ConstructionOrder, 1, alive)) \cup left
          /\ \/ alive < BeforeSwapchain /\ UNCHANGED << createdVars, swapchain_result >>
             \/ alive = BeforeSwapchain /\ SwapchainFailed
             \/ alive > BeforeSwapchain /\ SwapchainCreated
    /\ appState' = "exited"
    /\ UNCHANGED << numImages, budget, builder, image_layout, owned, surfaceVars,
                    framebuffer_extent, framebuffers, commands,
                    recorded, cpuVars,
                    syncVars, command_buffers, acquired, queueVars, failures,
                    deviceLost >>

\* App::initalize when the surface reports no format: VulkanSwapchain::new
\* panics in choose_surface_format; unwinding drops the locals alive.
initalize_panic ==
    /\ appState = "new"
    /\ ChooseSurfaceFormatPanics(available_formats)
    /\ destroyed' = DropAll(Reverse(SubSeq(ConstructionOrder, 1, BeforeSwapchain)))
    /\ SwapchainPanicked
    /\ created' = ObjectsOf(SubSeq(ConstructionOrder, 1, BeforeSwapchain))
    /\ appState' = "panicked"
    /\ UNCHANGED << numImages, budget, builder, image_layout, owned, surfaceVars,
                    framebuffer_extent, framebuffers, commands,
                    recorded, cpuVars,
                    syncVars, command_buffers, acquired, queueVars, failures,
                    deviceLost >>

\* ------------------------------------------------------------ render loop
\* Faulty variant of ReturnErr: the error is swallowed, draw_frame returns as if
\* nothing had happened.
ReturnErrSilent ==
    /\ pc' = "idle"
    /\ suboptimal' = FALSE
    /\ UNCHANGED << current_frame, slotLog, errorsReported >>

\* Faulty variant of ReturnErr: the slot index advances on the error path too.
ReturnErrAdvance ==
    /\ pc' = "idle"
    /\ suboptimal' = FALSE
    /\ errorsReported' = errorsReported + 1
    /\ current_frame' = (current_frame + 1) % RendererMaxFramesInFlight
    /\ UNCHANGED slotLog

\* draw_frame returning Err to App::render_frame, which prints it and returns;
\* current_frame is not touched on this path.
ReturnErr ==
    /\ pc' = "idle"
    /\ suboptimal' = FALSE
    /\ errorsReported' = errorsReported + 1
    /\ UNCHANGED << current_frame, slotLog >>

\* Faulty variant of render_frame: draw_frame starts with the acquire, without the
\* fence wait.
render_frame_NoFenceWait ==
    /\ appState = "running"
    /\ pc = "idle"
    /\ calls < budget.calls
    /\ pc' = "acquire"
    /\ calls' = calls + 1
    /\ steps' = << >>
    /\ suboptimal' = FALSE
    /\ image_index' = NoImage
    /\ commands' = << >>
    /\ recorded' = NoRecording
    /\ UNCHANGED << appState, numImages, budget, builder, image_layout,
                    teardownVars, swapchainVars, current_frame, slotLog,
                    errorsReported, syncVars, command_buffers, acquired, queueVars,
                    failures, deviceLost >>

\* WindowEvent::RedrawRequested -> App::render_frame -> draw_frame entry.
\* about_to_wait requests a redraw on every loop iteration while the window
\* exists, so the only guard is that every Option of App is Some.
render_frame ==
    /\ appState = "running"
    /\ pc = "idle"
    /\ calls < budget.calls
    /\ pc' = "wait_for_fence"
    /\ calls' = calls + 1
    /\ steps' = << >>
    /\ suboptimal' = FALSE
    /\ image_index' = NoImage
    /\ commands' = << >>
    /\ recorded' = NoRecording
    /\ UNCHANGED << appState, numImages, budget, builder, image_layout,
                    teardownVars, swapchainVars, current_frame, slotLog,
                    errorsReported, syncVars, command_buffers, acquired, queueVars,
                    failures, deviceLost >>

\* Faulty variants of FenceWaitReturns: a wait that never blocks (a zero timeout), and
\* a wait on the fence of the neighbouring slot.
FenceWaitNoBlock(s) == TRUE
FenceWaitWrongSlot(s) == in_flight_fences[(s + 1) % numImages]

\* vkWaitForFences(fence, wait_all, u64::MAX) returns once the fence is signaled.
FenceWaitReturns(s) == in_flight_fences[s]

\* VulkanSyncObjects::wait_for_fence(self.current_frame)
wait_for_fence ==
    /\ pc = "wait_for_fence"
    /\ UNCHANGED << appState, numImages, budget, builder, image_layout,
                    teardownVars, swapchainVars, commands, recorded, image_index,
                    calls, syncVars, command_buffers, acquired, queueVars,
                    deviceLost >>
    /\ \/ \* self.in_flight_fences[frame_index]: index out of bounds panics
          /\ current_frame \notin DOMAIN in_flight_fences
          /\ pc' = "panicked"
          /\ UNCHANGED << current_frame, slotLog, errorsReported, steps, failures,
                          suboptimal >>
       \/ /\ current_frame \in DOMAIN in_flight_fences
          /\ ~deviceLost
          /\ FenceWaitReturns(current_frame)
          /\ pc' = "acquire"
          /\ steps' = Append(steps, << "wait_for_fence", current_frame >>)
          /\ UNCHANGED << current_frame, slotLog, errorsReported, failures,
                          suboptimal >>
       \/ /\ current_frame \in DOMAIN in_flight_fences
          /\ \/ deviceLost /\ UNCHANGED failures
             \/ ~deviceLost /\ MayFail /\ Fail
          /\ steps' = Append(steps, << "wait_for_fence", current_frame >>)
          /\ ReturnErr

\* sync_objects.image_available_semaphores
\*     [self.current_frame % sync_objects.max_frames_in_flight]
frame_image_semaphore == current_frame % numImages

\* The presentation engine signals the acquire semaphore when image i is free:
\* at once if no present of i is queued, else when that present has executed.
SemaphoreAfterAcquire(sem, i) ==
    IF ImageInPresentQ(presentQ, i)
    THEN [sem EXCEPT !.pend = @ \cup {i}]
    ELSE [sem EXCEPT !.sig = TRUE]

\* Image i is at rest: nothing queued, held or pending refers to it.
ImageAtRest(i) ==
    /\ i \notin acquired
    /\ ~ImageInPresentQ(presentQ, i)
    /\ ~CommandBufferPending(i)
    /\ \A s \in DOMAIN image_available_semaphores :
          i \notin image_available_semaphores[s].pend

\* Images at rest in the same layout whose command buffers are in the same
\* state differ by name only; of those the driver's choice is represented by the lowest index.
RepresentativeImage(i) ==
    ~ \E j \in Images : /\ j < i
                         /\ ImageAtRest(i) /\ ImageAtRest(j)
                         /\ command_buffers[i] = command_buffers[j]
                         /\ image_layout[i] = image_layout[j]

\* The images vkAcquireNextImageKHR may return: any image the application does
\* not hold, possibly before the presentation engine released it (the
\* semaphore says when).
AcquirableImages == {i \in Images \ acquired : RepresentativeImage(i)}

\* The timeout draw_frame passes to acquire_next_image.
AcquireTimeout == "u64::MAX"

\* The presentation engine holds no present request for image i, and the
\* application does not hold it: it can be handed out at once.
ImageReleased(i) == i \notin acquired /\ ~ImageInPresentQ(presentQ, i)

\* With an infinite timeout vkAcquireNextImageKHR waits on the CPU for the
\* presentation engine whenever no image is released (a driver may instead
\* return an image ahead of its release, as acquire_next_image below allows).
AcquireMayWait ==
    /\ AcquireTimeout = "u64::MAX"
    /\ ~deviceLost
    /\ ~ \E i \in Images : ImageReleased(i)

\* Faulty variant of acquire_next_image: the slot's fence is reset before the
\* image is requested, so it stays unsignaled when the request fails.
acquire_next_image_FenceResetFirst ==
    /\ pc = "acquire"
    /\ steps' = Append(steps, << "acquire_next_image", frame_image_semaphore >>)
    /\ UNCHANGED << appState, numImages, budget, builder, image_layout,
                    teardownVars, swapchainVars, commands, recorded, calls,
                    render_finished_semaphores, command_buffers, queueVars,
                    deviceLost >>
    /\ in_flight_fences' = [in_flight_fences EXCEPT ![current_frame] = FALSE]
    /\ \/ /\ ~deviceLost
          /\ \E i \in AcquirableImages, sub \in BOOLEAN :
                /\ image_index' = i
                /\ acquired' = acquired \cup {i}
                /\ suboptimal' = sub
                /\ image_available_semaphores' =
                      [image_available_semaphores EXCEPT ![frame_image_semaphore] =
                          SemaphoreAfterAcquire(@, i)]
          /\ pc' = "reset_fence"
          /\ UNCHANGED << current_frame, slotLog, errorsReported, failures >>
       \/ \* ERROR_OUT_OF_DATE_KHR or a device error: `?` returns
          /\ \/ deviceLost /\ UNCHANGED failures
             \/ ~deviceLost /\ MayFail /\ Fail
          /\ ReturnErr
          /\ UNCHANGED << image_index, acquired, image_available_semaphores >>

\* swapchain_loader.acquire_next_image(swapchain, u64::MAX, semaphore, null)
acquire_next_image ==
    /\ pc = "acquire"
    /\ steps' = Append(steps, << "acquire_next_image", frame_image_semaphore >>)
    /\ UNCHANGED << appState, numImages, budget, builder, image_layout,
                    teardownVars, swapchainVars, commands, recorded, calls,
                    in_flight_fences, render_finished_semaphores, command_buffers,
                    queueVars, deviceLost >>
    /\ \/ /\ ~deviceLost
          /\ \E i \in AcquirableImages, sub \in BOOLEAN :
                /\ image_index' = i
                /\ acquired' = acquired \cup {i}
                /\ suboptimal' = sub
                /\ image_available_semaphores' =
                      [image_available_semaphores EXCEPT ![frame_image_semaphore] =
                          SemaphoreAfterAcquire(@, i)]
          /\ pc' = "reset_fence"
          /\ UNCHANGED << current_frame, slotLog, errorsReported, failures >>
       \/ \* ERROR_OUT_OF_DATE_KHR or a device error: `?` returns
          /\ \/ deviceLost /\ UNCHANGED failures
             \/ ~deviceLost /\ MayFail /\ Fail
          /\ ReturnErr
          /\ UNCHANGED << image_index, acquired, image_available_semaphores >>

\* Faulty variant of reset_fence: the call returns Ok and leaves the fence as it
\* was.
reset_fence_NoReset ==
    /\ pc = "reset_fence"
    /\ steps' = Append(steps, << "reset_fence", current_frame >>)
    /\ UNCHANGED << appState, numImages, budget, builder, image_layout,
                    teardownVars, swapchainVars, commands, recorded, image_index,
                    calls, image_available_semaphores, render_finished_semaphores,
                    command_buffers, acquired, queueVars, deviceLost >>
    /\ \/ /\ UNCHANGED in_flight_fences
          /\ pc' = "record"
          /\ UNCHANGED << current_frame, slotLog, errorsReported, failures,
                          suboptimal >>
       \/ /\ MayFail /\ Fail
          /\ ReturnErr
          /\ UNCHANGED in_flight_fences

\* VulkanSyncObjects::reset_fence(self.current_frame)
reset_fence ==
    /\ pc = "reset_fence"
    /\ steps' = Append(steps, << "reset_fence", current_frame >>)
    /\ UNCHANGED << appState, numImages, budget, builder, image_layout,
                    teardownVars, swapchainVars, commands, recorded, image_index,
                    calls, image_available_semaphores, render_finished_semaphores,
                    command_buffers, acquired, queueVars, deviceLost >>
    /\ \/ /\ in_flight_fences' = [in_flight_fences EXCEPT ![current_frame] = FALSE]
          /\ pc' = "record"
          /\ UNCHANGED << current_frame, slotLog, errorsReported, failures,
                          suboptimal >>
       \/ /\ MayFail /\ Fail
          /\ ReturnErr
          /\ UNCHANGED in_flight_fences

\* The command buffer draw_frame records and submits:
\* record_command_buffer(.., image_index as usize) and
\* submit_command_buffer(.., image_index as usize, ..) both index
\* command_pool.command_buffers by the acquired image index.
FrameCommandBuffer == image_index

\* Resetting or re-recording a command buffer changes what every queued batch
\* that references it will execute.
Clobber(q, b) ==
    [k \in 1 .. Len(q) |-> IF q[k].cmd = b THEN [q[k] EXCEPT !.clobbered = TRUE] ELSE q[k]]

\* Faulty variant of RecordCommands: begin first, then the reset.
RecordCommandsBeginFirst ==
    << "begin_command_buffer", "reset_command_buffer", "begin_render_pass",
       "bind_pipeline", "set_viewport", "set_scissor", "draw", "end_render_pass",
       "end_command_buffer" >>

\* The calls of VulkanRenderer::record_command_buffer on the command buffer,
\* in program order.
RecordCommands ==
    << "reset_command_buffer", "begin_command_buffer", "begin_render_pass",
       "bind_pipeline", "set_viewport", "set_scissor", "draw", "end_render_pass",
       "end_command_buffer" >>

\* Faulty variant of Recording: viewport and scissor follow the window size.
RecordingFromWindow(swapchain_extent) ==
    [ render_area |-> Rect2D(0, 0, swapchain_extent),
      viewport |-> [ x |-> 0, y |-> 0,
                     width |-> as_f32(window_size.width),
                     height |-> as_f32(window_size.height),
                     min_depth |-> 0, max_depth |-> 1 ],
      scissor |-> Rect2D(0, 0, window_size) ]

\* What record_command_buffer puts into the command buffer from
\* swapchain.extent: the render area of begin_render_pass, the viewport
\* (width and height converted to f32) and the scissor rectangle.
Recording(swapchain_extent) ==
    [ render_area |-> Rect2D(0, 0, swapchain_extent),
      viewport |-> [ x |-> 0, y |-> 0,
                     width |-> as_f32(swapchain_extent.width),
                     height |-> as_f32(swapchain_extent.height),
                     min_depth |-> 0, max_depth |-> 1 ],
      scissor |-> Rect2D(0, 0, swapchain_extent) ]

\* VulkanRenderer::record_command_buffer: reset, begin, begin-pass, bind,
\* viewport/scissor, draw, end-pass, end, on the CPU. reset/begin/end can
\* return an error; the buffer is then left as that call left it.
record_command_buffer ==
    /\ pc = "record"
    /\ steps' = Append(steps, << "record_command_buffer", FrameCommandBuffer >>)
    /\ UNCHANGED << appState, numImages, budget, builder, image_layout,
                    teardownVars, swapchainVars, image_index, calls, syncVars,
                    acquired, presentQ, deviceLost >>
    /\ \/ /\ command_buffers' =
                [command_buffers EXCEPT ![FrameCommandBuffer] = "executable"]
          /\ gpuQ' = Clobber(gpuQ, FrameCommandBuffer)
          /\ commands' = RecordCommands
          /\ recorded' = Recording(extent)
          /\ pc' = "submit"
          /\ UNCHANGED << current_frame, slotLog, errorsReported, failures,
                          suboptimal >>
       \/ /\ MayFail /\ Fail
          /\ ReturnErr
          /\ \/ \* reset_command_buffer failed
                /\ commands' = SubSeq(RecordCommands, 1, 1)
                /\ UNCHANGED << command_buffers, gpuQ, recorded >>
             \/ \* begin_command_buffer failed after the reset
                /\ commands' = SubSeq(RecordCommands, 1, 2)
                /\ UNCHANGED recorded
                /\ command_buffers' =
                      [command_buffers EXCEPT ![FrameCommandBuffer] = "initial"]
                /\ gpuQ' = Clobber(gpuQ, FrameCommandBuffer)
             \/ \* end_command_buffer failed
                /\ commands' = RecordCommands
                /\ recorded' = Recording(extent)
                /\ command_buffers' =
                      [command_buffers EXCEPT ![FrameCommandBuffer] = "invalid"]
                /\ gpuQ' = Clobber(gpuQ, FrameCommandBuffer)

\* sync_objects.get_frame_sync_objects(self.current_frame)
get_frame_sync_objects(frame_index) ==
    [ image_available_semaphore |-> frame_index,
      render_finished_semaphore |-> frame_index,
      in_flight_fence |-> frame_index ]

\* The batch submit_command_buffer hands to vkQueueSubmit.
SubmitInfo(frame_sync) ==
    [ frame  |-> calls,
      slot   |-> current_frame,
      cmd    |-> FrameCommandBuffer,
      clobbered |-> FALSE,
      image  |-> image_index,
      wait   |-> frame_sync.image_available_semaphore,
      signal |-> frame_sync.render_finished_semaphore,
      fence  |-> frame_sync.in_flight_fence ]

\* VulkanRenderer::submit_command_buffer
submit_command_buffer ==
    /\ pc = "submit"
    /\ steps' = Append(steps, << "queue_submit", FrameCommandBuffer >>)
    /\ UNCHANGED << appState, numImages, budget, builder, image_layout,
                    teardownVars, swapchainVars, commands, recorded, image_index,
                    calls, syncVars, command_buffers, acquired, presentQ,
                    deviceLost >>
    /\ \/ /\ ~deviceLost
          /\ gpuQ' = Append(gpuQ, SubmitInfo(get_frame_sync_objects(current_frame)))
          /\ pc' = "present"
          /\ UNCHANGED << current_frame, slotLog, errorsReported, failures,
                          suboptimal >>
       \/ /\ \/ deviceLost /\ UNCHANGED failures
             \/ ~deviceLost /\ MayFail /\ Fail
          /\ ReturnErr
          /\ UNCHANGED gpuQ

\* The request present_frame hands to vkQueuePresentKHR.
PresentInfo(frame_sync) ==
    [ frame |-> calls,
      image |-> image_index,
      wait  |-> frame_sync.render_finished_semaphore ]

\* Faulty variants of NextFrame: an advance by two, and no advance at all.
NextFrameSkip(f) == (f + 2) % RendererMaxFramesInFlight
NextFrameStuck(f) == f

\* self.current_frame = (self.current_frame + 1) % self.max_frames_in_flight
NextFrame(f) == (f + 1) % RendererMaxFramesInFlight

\* Faulty variant of present_frame: a frame whose acquire reported SUBOPTIMAL is
\* given up with an error instead of being presented.
present_frame_RejectSuboptimal ==
    /\ pc = "present"
    /\ steps' = Append(steps, << "queue_present", image_index >>)
    /\ UNCHANGED << appState, numImages, budget, builder, image_layout,
                    teardownVars, swapchainVars, commands, recorded, image_index,
                    calls, syncVars, command_buffers, gpuQ, deviceLost >>
    /\ \/ /\ ~deviceLost
          /\ ~suboptimal
          /\ suboptimal' = FALSE
          /\ presentQ' = Append(presentQ,
                                PresentInfo(get_frame_sync_objects(current_frame)))
          /\ acquired' = acquired \ {image_index}
          /\ current_frame' = NextFrame(current_frame)
          /\ slotLog' = Append(slotLog, current_frame)
          /\ pc' = "idle"
          /\ UNCHANGED << errorsReported, failures >>
       \/ /\ \/ deviceLost /\ UNCHANGED failures
             \/ ~deviceLost /\ suboptimal /\ UNCHANGED failures
             \/ ~deviceLost /\ MayFail /\ Fail
          /\ ReturnErr
          /\ \/ UNCHANGED << presentQ, acquired >>
             \/ /\ ~deviceLost
                /\ presentQ' = Append(presentQ,
                                      PresentInfo(get_frame_sync_objects(current_frame)))
                /\ acquired' = acquired \ {image_index}

\* VulkanRenderer::present_frame followed by the advance of current_frame and
\* Ok(()). queue_present returns Ok(suboptimal), which is dropped, or Err; on
\* ERROR_OUT_OF_DATE_KHR / SURFACE_LOST the semaphore wait is still enqueued,
\* on other errors nothing is.
present_frame ==
    /\ pc = "present"
    /\ steps' = Append(steps, << "queue_present", image_index >>)
    /\ UNCHANGED << appState, numImages, budget, builder, image_layout,
                    teardownVars, swapchainVars, commands, recorded, image_index,
                    calls, syncVars, command_buffers, gpuQ, deviceLost >>
    /\ \/ /\ ~deviceLost
          /\ \E present_suboptimal \in BOOLEAN :
                suboptimal' = (suboptimal \/ present_suboptimal)
          /\ presentQ' = Append(presentQ,
                                PresentInfo(get_frame_sync_objects(current_frame)))
          /\ acquired' = acquired \ {image_index}
          /\ current_frame' = NextFrame(current_frame)
          /\ slotLog' = Append(slotLog, current_frame)
          /\ pc' = "idle"
          /\ UNCHANGED << errorsReported, failures >>
       \/ /\ \/ deviceLost /\ UNCHANGED failures
             \/ ~deviceLost /\ MayFail /\ Fail
          /\ ReturnErr
          /\ \/ UNCHANGED << presentQ, acquired >>
             \/ /\ ~deviceLost
                /\ presentQ' = Append(presentQ,
                                      PresentInfo(get_frame_sync_objects(current_frame)))
                /\ acquired' = acquired \ {image_index}

\* ------------------------------------------------------------------- GPU
\* The graphics queue executes batches in submission order. A batch starts
\* once its wait semaphore is signaled (consuming it) and on completion
\* signals its signal semaphore and its fence.
\* Executing a command buffer that was reset or re-recorded while pending is
\* undefined: the batch completes anyway, or the device is lost.
CommandBufferIntact(sub) == ~sub.clobbered

\* The layout the render pass leaves the image of a batch in: the final
\* layout of the attachment. What a command buffer re-recorded while pending
\* does to the image is undefined.
LayoutsAfterPass(sub) ==
    IF CommandBufferIntact(sub)
    THEN {ColorAttachment(surface_format.format).final_layout}
    ELSE ImageLayouts

GpuExecute ==
    /\ gpuQ /= << >>
    /\ ~deviceLost
    /\ LET sub == Head(gpuQ) IN
          /\ image_available_semaphores[sub.wait].sig
          /\ \/ /\ image_available_semaphores' =
                      [image_available_semaphores EXCEPT ![sub.wait].sig = FALSE]
                /\ render_finished_semaphores' =
                      [render_finished_semaphores EXCEPT ![sub.signal] = TRUE]
                /\ in_flight_fences' = [in_flight_fences EXCEPT ![sub.fence] = TRUE]
                /\ \E layout \in LayoutsAfterPass(sub) :
                      image_layout' = [image_layout EXCEPT ![sub.image] = layout]
                /\ gpuQ' = Tail(gpuQ)
                /\ UNCHANGED deviceLost
             \/ /\ ~CommandBufferIntact(sub)
                /\ deviceLost' = TRUE
                /\ UNCHANGED << syncVars, gpuQ, image_layout >>
    /\ UNCHANGED << appState, numImages, budget, builder, teardownVars, swapchainVars,
                    commands, recorded,
                    cpuVars, command_buffers, acquired,
                    presentQ, failures >>

\* ---------------------------------------------------- presentation engine
\* Releasing image i signals every acquire semaphore waiting for it.
ReleaseImage(sems, q, i) ==
    IF ImageInPresentQ(q, i)
    THEN sems
    ELSE [s \in DOMAIN sems |->
            IF i \in sems[s].pend
            THEN [sig |-> TRUE, pend |-> sems[s].pend \ {i}]
            ELSE sems[s]]

\* The present queue executes requests in order: the head waits for its
\* render-finished semaphore (consuming it), the image is read and released.
PresentExecute ==
    /\ presentQ /= << >>
    /\ ~deviceLost
    /\ LET req == Head(presentQ) IN
          /\ render_finished_semaphores[req.wait]
          /\ render_finished_semaphores' =
                [render_finished_semaphores EXCEPT ![req.wait] = FALSE]
          /\ presentQ' = Tail(presentQ)
          /\ image_available_semaphores' =
                ReleaseImage(image_available_semaphores, Tail(presentQ), req.image)
    /\ UNCHANGED << appState, numImages, budget, builder, image_layout,
                    teardownVars, swapchainVars, commands, recorded, cpuVars,
                    in_flight_fences, command_buffers, acquired, gpuQ, failures,
                    deviceLost >>

\* --------------------------------------------------------------- shutdown
\* WindowEvent::CloseRequested: device.wait_idle() is entered ...
close_requested ==
    /\ appState = "running"
    /\ pc = "idle"
    /\ appState' = "closing"
    /\ UNCHANGED << numImages, budget, builder, image_layout, teardownVars, swapchainVars,
                    commands, recorded,
                    cpuVars, syncVars, command_buffers, acquired,
                    queueVars, failures, deviceLost >>

\* vkDeviceWaitIdle: returns Ok once every queue is idle, or Err (device lost,
\* out of memory) without having waited.
DeviceIdle == gpuQ = << >> /\ presentQ = << >>

device_wait_idle ==
    \/ DeviceIdle /\ UNCHANGED failures
    \/ deviceLost /\ UNCHANGED failures
    \/ ~DeviceIdle /\ ~deviceLost /\ MayFail /\ Fail

\* ... and returns, the result is dropped by `let _ =`; then
\* event_loop.exit().
wait_idle ==
    /\ appState = "closing"
    /\ device_wait_idle
    /\ appState' = "exited"
    /\ UNCHANGED << numImages, budget, builder, image_layout, teardownVars, swapchainVars,
                    commands, recorded,
                    cpuVars, syncVars, command_buffers, acquired, queueVars,
                    deviceLost >>

\* --------------------------------------------------------------- teardown
\* main: `app` goes out of scope when run_app has returned, or while a panic
\* of draw_frame unwinds; its fields are dropped in declaration order.
Dropping == owned /= << >> /\ (appState = "exited" \/ pc = "panicked")

\* Drop for VulkanSyncObjects: device_wait_idle with the result dropped, then
\* the semaphores and fences are destroyed.
drop_sync_objects ==
    /\ Dropping
    /\ Head(owned) = "sync_objects"
    /\ device_wait_idle
    /\ destroyed' = destroyed \o DestroyCalls("sync_objects")
    /\ owned' = Tail(owned)
    /\ UNCHANGED << appState, numImages, budget, builder, image_layout, created,
                    swapchainVars, commands, recorded, cpuVars, syncVars,
                    command_buffers, acquired, queueVars, deviceLost >>

\* Drop of every other field of App: its destroy calls, without any wait.
drop_field ==
    /\ Dropping
    /\ Head(owned) /= "sync_objects"
    /\ destroyed' = destroyed \o DestroyCalls(Head(owned))
    /\ owned' = Tail(owned)
    /\ UNCHANGED << appState, numImages, budget, builder, image_layout, created,
                    swapchainVars, commands, recorded, cpuVars, syncVars,
                    command_buffers, acquired, queueVars, failures, deviceLost >>

Next ==
    \/ initalize_ok
    \/ initalize_err
    \/ initalize_panic
    \/ render_frame
    \/ wait_for_fence
    \/ acquire_next_image
    \/ reset_fence
    \/ record_command_buffer
    \/ submit_command_buffer
    \/ present_frame
    \/ GpuExecute
    \/ PresentExecute
    \/ close_requested
    \/ drop_sync_objects
    \/ drop_field
    \/ wait_idle

Spec == Init /\ [][Next]_vars

SpecLong == InitLong /\ [][Next]_vars

SpecSwapchain == InitSwapchain /\ [][Next]_vars

SpecExtent == InitExtent /\ [][Next]_vars

\* VulkanSwapchain::new called once on whatever the surface reports.
NextSurface ==
    \/ VulkanSwapchain_new_ok
    \/ VulkanSwapchain_new_err
    \/ VulkanSwapchain_new_panic

SpecSurface == InitSurface /\ [][NextSurface]_vars

\* The calls on a VulkanPipelineBuilder, in any order, up to build().
NextBuilder ==
    \/ set_render_pass
    \/ set_extent
    \/ with_shader_spv
    \/ build

SpecBuilder == InitBuilder /\ [][NextBuilder]_vars

TypeOK ==
    /\ appState \in {"new", "running", "closing", "exited", "panicked"}
    /\ surface_format \in SurfaceFormats \cup {NoFormat}
    /\ \A k \in 1 .. Len(destroyed) : \A j \in 1 .. (k - 1) : destroyed[j] /= destroyed[k]
    /\ pc \in {"idle", "wait_for_fence", "acquire", "reset_fence", "record",
               "submit", "present", "panicked"}
    /\ current_frame \in 0 .. (RendererMaxFramesInFlight - 1)
    /\ calls \in 0 .. budget.calls
    /\ failures \in 0 .. budget.failures

\* ================================================================ claims
PastFenceWait == pc \in {"acquire", "reset_fence", "record", "submit"}

\* C1: at most N = max_frames_in_flight submissions are outstanding (completion
\* fence not yet signaled) at any instant, and while N are outstanding the
\* next draw_frame call does not get past its fence wait.
C1_AtMostNInFlight ==
    /\ Len(gpuQ) <= RendererMaxFramesInFlight
    /\ Len(gpuQ) = RendererMaxFramesInFlight => ~PastFenceWait

\* The (N+1)-th call is blocked in the fence wait behind N outstanding
\* submissions.
C1_Witness ==
    /\ Len(gpuQ) = RendererMaxFramesInFlight
    /\ calls = RendererMaxFramesInFlight + 1
    /\ pc = "wait_for_fence"
    /\ ~in_flight_fences[current_frame]

\* C2: draw_frame never resets or re-records a command buffer while a
\* submission that references it is still in flight.
C2_NoRerecordInFlight ==
    \A k \in 1 .. Len(gpuQ) : ~gpuQ[k].clobbered

\* C3: once a draw_frame call is past its fence wait, it has waited on the
\* fence of its own slot and no earlier submission that uses this slot's
\* fence or semaphores is still outstanding.
C3_SlotReusedAfterFence ==
    (PastFenceWait \/ pc = "present") =>
        /\ steps[1] = << "wait_for_fence", current_frame >>
        /\ \A k \in 1 .. Len(gpuQ) :
              gpuQ[k].frame < calls =>
                 /\ gpuQ[k].fence /= current_frame
                 /\ gpuQ[k].wait /= current_frame
                 /\ gpuQ[k].signal /= current_frame

\* Slot 0 is being reused (fence reset, second round) while the submissions
\* of the two other slots are still outstanding.
C3_Witness ==
    /\ pc = "record"
    /\ current_frame = 0
    /\ Len(slotLog) = RendererMaxFramesInFlight
    /\ ~in_flight_fences[0]
    /\ Len(gpuQ) = RendererMaxFramesInFlight - 1

\* C4: the command buffer a frame records and submits is the one of the
\* current frame slot, i.e. the buffer the waited-on fence protects.
C4_BufferOfCurrentSlot ==
    /\ pc \in {"submit", "present"} => FrameCommandBuffer = current_frame
    /\ \A k \in 1 .. Len(gpuQ) : gpuQ[k].cmd = gpuQ[k].fence

\* C5: the slots of successive successful draw_frame calls are 0, 1, 2, 0, ...
\* (call k uses slot (k - 1) mod N).
C5_RoundRobin ==
    \A k \in 1 .. Len(slotLog) : slotLog[k] = (k - 1) % RendererMaxFramesInFlight

\* Seven successful calls with N = 3.
C5_Witness == slotLog = << 0, 1, 2, 0, 1, 2, 0 >>

\* A presentation request was issued and draw_frame returned Ok.
FramePresented == pc = "present" /\ pc' = "idle" /\ errorsReported' = errorsReported

\* C6 as stated: the frame counter never decreases.
C6_MonotonicCounter == [][current_frame' >= current_frame]_vars

\* C6 amended: current_frame advances by exactly one modulo N on every
\* draw_frame call that completes its presentation request, suboptimal or
\* not, and changes at no other step.
C6_AdvancesByOneModN ==
    [][ /\ FramePresented =>
              /\ current_frame' = (current_frame + 1) % RendererMaxFramesInFlight
              /\ Len(slotLog') = Len(slotLog) + 1
        /\ ~FramePresented => current_frame' = current_frame ]_vars

\* After three presented frames the index is back at 0, and the fourth frame
\* runs with a suboptimal acquire.
C6_Witness ==
    /\ Len(slotLog) = RendererMaxFramesInFlight
    /\ current_frame = 0
    /\ pc = "present"
    /\ suboptimal

\* Steps of the queues, recognised by what they do to the queues.
BatchSubmitted == Len(gpuQ') = Len(gpuQ) + 1
BatchExecuted == Len(gpuQ') = Len(gpuQ) - 1
PresentQueued == Len(presentQ') = Len(presentQ) + 1
PresentExecuted == Len(presentQ') = Len(presentQ) - 1

\* A present request for image i issued by a frame before frame f is queued.
EarlierPresentQueued(i, f) ==
    \E k \in 1 .. Len(presentQ) : presentQ[k].image = i /\ presentQ[k].frame < f

\* C7: a frame's batch waits on the semaphore given to that frame's acquire,
\* which is the image-available semaphore of the current slot, signals the
\* slot's render-finished semaphore and carries the slot's fence; and the GPU
\* executes no batch while an earlier present of the batch's image is still
\* queued (the image is not yet available to the frame).
C7_SubmitWaitsForAcquire ==
    [][ /\ BatchSubmitted =>
              LET sub == gpuQ'[Len(gpuQ')] IN
                 /\ steps[2] = << "acquire_next_image", sub.wait >>
                 /\ sub.wait = current_frame
                 /\ sub.signal = current_frame
                 /\ sub.fence = current_frame
        /\ BatchExecuted =>
              ~EarlierPresentQueued(Head(gpuQ).image, Head(gpuQ).frame) ]_vars

\* C8: a frame's present request is for the image acquired in that frame and
\* waits on the render-finished semaphore of that frame's batch; the
\* presentation engine executes no present request whose frame's batch is
\* still outstanding.
C8_PresentAfterRender ==
    [][ /\ PresentQueued =>
              LET req == presentQ'[Len(presentQ')] IN
                 /\ req.image = image_index
                 /\ steps[5] = << "queue_submit", FrameCommandBuffer >>
                 /\ \A k \in 1 .. Len(gpuQ) :
                       gpuQ[k].frame = req.frame =>
                          gpuQ[k].signal = req.wait /\ gpuQ[k].image = req.image
        /\ PresentExecuted =>
              \A k \in 1 .. Len(gpuQ) : gpuQ[k].frame /= Head(presentQ).frame ]_vars

\* The Vulkan calls of one draw_frame call, in the order of the code.
DrawFrameOrder ==
    << "wait_for_fence", "acquire_next_image", "reset_fence",
       "record_command_buffer", "queue_submit", "queue_present" >>

\* C9 as stated: the fence wait of a frame comes after its acquire request.
C9_FenceWaitAfterAcquire ==
    \A k \in 1 .. Len(steps) :
        steps[k][1] = "wait_for_fence" =>
            \E j \in 1 .. (k - 1) : steps[j][1] = "acquire_next_image"

\* C9 amended: every draw_frame call issues wait_for_fence, acquire, fence
\* reset, record, submit, present in this order, each after the previous one
\* returned; the fence wait comes before the acquire request.
C9_StepOrder ==
    /\ Len(steps) <= Len(DrawFrameOrder)
    /\ \A k \in 1 .. Len(steps) : steps[k][1] = DrawFrameOrder[k]
    /\ pc = "acquire" => Len(steps) = 1
    /\ pc = "reset_fence" => Len(steps) = 2
    /\ pc = "record" => Len(steps) = 3
    /\ pc = "submit" => Len(steps) = 4
    /\ pc = "present" => Len(steps) = 5

\* A draw_frame call that ran all six calls and returned Ok.
C9_Witness ==
    /\ pc = "idle"
    /\ Len(steps) = Len(DrawFrameOrder)
    /\ Len(slotLog) = calls

\* C10: once draw_frame has returned an error, the render loop is over: the
\* error is reported once and draw_frame is not called again.
C10_ErrorEndsRenderLoop ==
    errorsReported >= 1 => (pc = "idle" /\ errorsReported = 1)

\* ------------------------------------------------------------- teardown
\* The objects the device-idle barrier has to protect.
IdleProtected ==
    { "image_views", "swapchain", "framebuffers", "render_pass",
      "image_available_semaphores", "render_finished_semaphores",
      "in_flight_fences", "command_pool" }

\* A submission is outstanding: queued on a device that is still running.
SubmissionOutstanding == gpuQ /= << >> /\ ~deviceLost

\* The objects destroyed by the step being taken.
NewlyDestroyed == {destroyed'[k] : k \in (Len(destroyed) + 1) .. Len(destroyed')}

\* C11: on every path to teardown no submission is outstanding when a
\* swapchain, image view, framebuffer, render pass, semaphore, fence or
\* command pool is destroyed: a device-idle barrier has completed before, and
\* nothing was submitted after it.
C11_IdleBeforeDestroy ==
    [][(NewlyDestroyed \cap IdleProtected /= {}) => ~SubmissionOutstanding]_vars

\* C12 as stated: command pool, then sync primitives, then image views, then
\* the swapchain, then the render pass.
StatedRank(obj) ==
    CASE obj = "command_pool" -> 1
      [] obj \in {"image_available_semaphores", "render_finished_semaphores",
                  "in_flight_fences"} -> 2
      [] obj = "image_views" -> 3
      [] obj = "swapchain" -> 4
      [] obj = "render_pass" -> 5
      [] OTHER -> 0

C12_StatedOrder ==
    \A j, k \in 1 .. Len(destroyed) :
        (j < k /\ StatedRank(destroyed[j]) > 0 /\ StatedRank(destroyed[k]) > 0)
            => StatedRank(destroyed[j]) <= StatedRank(destroyed[k])

\* The order the code destroys in.
CodeRank(obj) ==
    CASE obj \in {"pipeline", "pipeline_layout"} -> 1
      [] obj \in {"image_available_semaphores", "render_finished_semaphores",
                  "in_flight_fences"} -> 2
      [] obj = "command_pool" -> 3
      [] obj = "framebuffers" -> 4
      [] obj = "render_pass" -> 5
      [] obj = "image_views" -> 6
      [] obj = "swapchain" -> 7
      [] obj = "device" -> 8
      [] obj = "surface" -> 9
      [] obj = "instance" -> 10

IsPrefix(a, b) == Len(a) <= Len(b) /\ a = SubSeq(b, 1, Len(a))

\* C12 (amended): what has been destroyed is always an initial part of the
\* reverse of what was constructed, that is: pipeline, sync primitives,
\* command pool, framebuffers, render pass, image views, swapchain, and then
\* device, surface, instance.
C12_ReverseOfConstruction ==
    /\ \E alive \in 0 .. Len(ConstructionOrder) :
          IsPrefix(destroyed, DropAll(Reverse(SubSeq(ConstructionOrder, 1, alive))))
    /\ \A j, k \in 1 .. Len(destroyed) :
          j < k => CodeRank(destroyed[j]) <= CodeRank(destroyed[k])

\* The application rendered frames, was closed, and every field is dropped.
C12_Witness ==
    /\ appState = "exited"
    /\ slotLog /= << >>
    /\ owned = << >>
    /\ Len(destroyed) = 13
    /\ destroyed[3] = "image_available_semaphores"
    /\ destroyed[6] = "command_pool"

\* ------------------------------------------------- errors and suboptimal
\* acquire_next_image returned Err: the call left "acquire" without an image.
AcquireFailed == pc = "acquire" /\ pc' \notin {"acquire", "reset_fence"}

\* The frame of the current call left nothing on the queues.
NothingQueuedForCall ==
    /\ \A k \in 1 .. Len(gpuQ) : gpuQ[k].frame /= calls
    /\ \A k \in 1 .. Len(presentQ) : presentQ[k].frame /= calls

\* C13: when acquire_next_image reports out-of-date or a device error,
\* draw_frame returns an error for that frame, and nothing is recorded,
\* submitted or presented for it.
C13_AcquireErrorAbandonsFrame ==
    /\ [][AcquireFailed =>
             /\ pc' = "idle"
             /\ errorsReported' = errorsReported + 1
             /\ commands' = << >>
             /\ UNCHANGED << command_buffers, gpuQ, presentQ, current_frame >>]_vars
    /\ [](pc = "idle" /\ Len(steps) = 2 => commands = << >> /\ NothingQueuedForCall)

\* A draw_frame call gave up at the acquire while an earlier frame is still
\* on the graphics queue.
C13_Witness ==
    /\ pc = "idle"
    /\ Len(steps) = 2
    /\ steps[2][1] = "acquire_next_image"
    /\ errorsReported = 1
    /\ gpuQ /= << >>

\* A step of draw_frame on which no Vulkan call reported an error.
StepWithoutError(at) ==
    pc = at /\ pc' /= at /\ failures' = failures /\ ~deviceLost

\* C14: a SUBOPTIMAL acquire or present result changes nothing: as long as no
\* call reports an error the frame is recorded, submitted and presented, and
\* the state the call leaves is the one it leaves without the suboptimal
\* result (a function of the state before that does not read the result).
C14_SuboptimalAccepted ==
    [][ /\ StepWithoutError("reset_fence") => pc' = "record"
        /\ StepWithoutError("record") => pc' = "submit"
        /\ StepWithoutError("submit") => pc' = "present"
        /\ StepWithoutError("present") =>
              /\ pc' = "idle"
              /\ errorsReported' = errorsReported
              /\ \A k \in 1 .. Len(DrawFrameOrder) : steps'[k][1] = DrawFrameOrder[k]
              /\ current_frame' = NextFrame(current_frame)
              /\ presentQ' = Append(presentQ,
                                    PresentInfo(get_frame_sync_objects(current_frame)))
              /\ acquired' = acquired \ {image_index}
              /\ UNCHANGED << syncVars, command_buffers, gpuQ >> ]_vars

\* A call with a suboptimal result has returned Ok after all six calls.
C14_Witness ==
    /\ pc = "idle"
    /\ suboptimal
    /\ errorsReported = 0
    /\ Len(steps) = Len(DrawFrameOrder)
    /\ presentQ /= << >>

\* queue_present was called and has returned.
PresentIssued == pc = "present" /\ pc' = "idle"

\* C15 as stated: the slot index advances once the presentation request has
\* been issued, whatever the request reported.
C15_AdvanceWhateverReported ==
    [][PresentIssued => current_frame' = NextFrame(current_frame)]_vars

\* C15 (amended): once the presentation request has been issued the slot
\* index advances to (index + 1) mod N when the request reported success,
\* suboptimal or not, and stays where it is when the request reported an
\* error.
C15_AdvanceUnlessError ==
    [][PresentIssued =>
          IF errorsReported' = errorsReported
          THEN current_frame' = (current_frame + 1) % RendererMaxFramesInFlight
          ELSE current_frame' = current_frame /\ ~suboptimal']_vars

\* The second frame's presentation request reported an error: the index is
\* still the second frame's.
C15_Witness ==
    /\ pc = "idle"
    /\ Len(steps) = Len(DrawFrameOrder)
    /\ errorsReported = 1
    /\ Len(slotLog) = 1
    /\ current_frame = 1

\* ------------------------------------------------------- blocking, fences
\* C16: the fence wait is the only place where a draw_frame call can be held
\* up: in particular image acquisition never waits on the CPU.
C16_OnlyFenceWaitBlocks == pc = "acquire" => ~AcquireMayWait

\* C17: the fence wait of slot i returns only once the fence is signaled and
\* the reset leaves it unsignaled, so that the fence handed to queue_submit
\* is unsignaled and attached to no pending submission; pending submissions
\* carry pairwise different, unsignaled fences.
C17_FreshFencePerSubmit ==
    /\ pc \in {"acquire", "reset_fence"} => in_flight_fences[current_frame]
    /\ pc \in {"record", "submit"} =>
          /\ ~in_flight_fences[current_frame]
          /\ \A k \in 1 .. Len(gpuQ) : gpuQ[k].fence /= current_frame
    /\ \A k \in 1 .. Len(gpuQ) :
          /\ ~in_flight_fences[gpuQ[k].fence]
          /\ \A j \in 1 .. (k - 1) : gpuQ[j].fence /= gpuQ[k].fence

\* Slot 0 is used a second time: its fence was signaled by the first frame,
\* waited for and reset, and the fourth frame is about to be submitted with
\* it while two other submissions are pending.
C17_Witness ==
    /\ pc = "submit"
    /\ current_frame = 0
    /\ Len(slotLog) = RendererMaxFramesInFlight
    /\ Len(gpuQ) = 2
    /\ ~in_flight_fences[0]

\* -------------------------------------------------------------- recording
\* C18 as stated: a recording starts with begin, followed by a reset only if
\* the buffer was recorded before, then begin-pass, bind, viewport/scissor,
\* draw, end-pass, end.
C18_BeginBeforeReset ==
    \/ IsPrefix(commands, RecordCommandsBeginFirst)
    \/ IsPrefix(commands, << "begin_command_buffer" >> \o
                              SubSeq(RecordCommandsBeginFirst, 3, 9))

\* C18 (amended): every recording issues reset (always, also on a buffer
\* never recorded before), begin, begin-pass, bind pipeline, set viewport,
\* set scissor, draw, end-pass, end in this order; a recording that got past
\* begin reaches end, and the buffer handed to queue_submit is completely
\* recorded (ended, executable).
C18_ResetBeginEnd ==
    /\ [](/\ IsPrefix(commands,
                       << "reset_command_buffer", "begin_command_buffer",
                          "begin_render_pass", "bind_pipeline", "set_viewport",
                          "set_scissor", "draw", "end_render_pass",
                          "end_command_buffer" >>)
          /\ Len(commands) > 2 => Len(commands) = 9
          /\ pc \in {"submit", "present"} => Len(commands) = 9)
    /\ [][BatchSubmitted =>
             /\ commands[Len(commands)] = "end_command_buffer"
             /\ command_buffers[gpuQ'[Len(gpuQ')].cmd] = "executable"]_vars

\* The first recording of a buffer: it is reset although it was never
\* recorded, and it is about to be submitted.
C18_Witness ==
    /\ pc = "submit"
    /\ calls = 1
    /\ Len(commands) = 9
    /\ commands[1] = "reset_command_buffer"
    /\ command_buffers[image_index] = "executable"

\* ------------------------------------------------------- surface format
\* An 8-bit-per-channel sRGB-encoded format in the sRGB colour space.
Is8BitSrgb(f) ==
    /\ f.format \in {"B8G8R8A8_SRGB", "R8G8B8A8_SRGB"}
    /\ f.color_space = "SRGB_NONLINEAR"

\* The first such entry of the list, else the first entry.
FirstSrgbOrFirst(formats) ==
    IF \E k \in 1 .. Len(formats) : Is8BitSrgb(formats[k])
    THEN formats[CHOOSE k \in 1 .. Len(formats) :
                    /\ Is8BitSrgb(formats[k])
                    /\ \A j \in 1 .. (k - 1) : ~Is8BitSrgb(formats[j])]
    ELSE formats[1]

\* C19: the format of the swapchain is the first reported format that is an
\* 8-bit sRGB format, else the first reported format; from the list
\* [R8G8B8A8 sRGB, B8G8R8A8 sRGB] the B8G8R8A8 entry is not chosen.
C19_FirstSrgbFormat ==
    surface_format /= NoFormat =>
        /\ surface_format = FirstSrgbOrFirst(available_formats)
        /\ available_formats =
               << [format |-> "R8G8B8A8_SRGB", color_space |-> "SRGB_NONLINEAR"],
                  [format |-> "B8G8R8A8_SRGB", color_space |-> "SRGB_NONLINEAR"] >>
             => surface_format.format /= "B8G8R8A8_SRGB"

\* C20: when the surface reports no format, swapchain construction returns
\* an error to App::initalize (which exits the event loop); it does not
\* abort, and no swapchain exists afterwards.
C20_NoFormatsIsAnError ==
    available_formats = << >> =>
        /\ appState \in {"new", "exited"}
        /\ surface_format = NoFormat
        /\ owned = << >>

\* C21: when the surface reports zero present modes, swapchain construction
\* fails: VulkanSwapchain::new does not return Ok and no swapchain exists.
C21_NoModesIsAnError ==
    available_modes = << >> =>
        /\ swapchain_result /= "Ok"
        /\ present_mode = NoMode

ModeSet(modes) == {modes[k] : k \in 1 .. Len(modes)}

\* C22: the present mode handed to the swapchain is MAILBOX whenever MAILBOX
\* is anywhere in the reported list and FIFO otherwise, and every list with
\* the same entries in another order (or repeated) gives the same choice.
C22_MailboxElseFifo ==
    swapchain_result = "Ok" =>
        /\ "MAILBOX" \in ModeSet(available_modes) => present_mode = "MAILBOX"
        /\ "MAILBOX" \notin ModeSet(available_modes) => present_mode = "FIFO"
        /\ \A other \in ModeLists(MaxModes) :
              ModeSet(other) = ModeSet(available_modes)
                  => choose_present_mode(other) = present_mode

C22_Witness ==
    /\ swapchain_result = "Ok"
    /\ Len(available_modes) = MaxModes
    /\ available_modes[1] /= "MAILBOX"
    /\ available_modes[MaxModes] = "MAILBOX"
    /\ present_mode = "MAILBOX"

Clamped(chosen, requested, min, max) ==
    /\ min <= chosen /\ chosen <= max
    /\ requested < min => chosen = min
    /\ requested > max => chosen = max
    /\ (min <= requested /\ requested <= max) => chosen = requested

\* C23: when the surface reports the "swapchain decides" current extent, the
\* chosen extent is the window size clamped per component into
\* [min_image_extent, max_image_extent] (min {1,1}, max {4096,4096}, window
\* {10000,10000} gives {4096,4096}); otherwise it is current_extent unchanged.
C23_ExtentSelection ==
    swapchain_result = "Ok" =>
        /\ capabilities.current_extent = ClientDecides =>
              /\ Clamped(extent.width, window_size.width,
                         capabilities.min_image_extent.width,
                         capabilities.max_image_extent.width)
              /\ Clamped(extent.height, window_size.height,
                         capabilities.min_image_extent.height,
                         capabilities.max_image_extent.height)
        /\ capabilities.current_extent /= ClientDecides =>
              extent = capabilities.current_extent
        /\ ( /\ capabilities.current_extent = ClientDecides
             /\ capabilities.min_image_extent = Extent2D(1, 1)
             /\ capabilities.max_image_extent = Extent2D(4096, 4096)
             /\ window_size = Extent2D(10000, 10000) )
           => extent = Extent2D(4096, 4096)

C23_Witness ==
    /\ swapchain_result = "Ok"
    /\ capabilities.current_extent = ClientDecides
    /\ capabilities.min_image_extent = Extent2D(1, 1)
    /\ capabilities.max_image_extent = Extent2D(4096, 4096)
    /\ window_size = Extent2D(10000, 10000)
    /\ extent = Extent2D(4096, 4096)

\* C24: the image count requested for the swapchain is min_image_count + 1
\* unless that exceeds a non-zero max_image_count, in which case it is
\* max_image_count; it always lies within [min_image_count, max_image_count],
\* max_image_count = 0 meaning no upper limit.
C24_ImageCount ==
    swapchain_result = "Ok" =>
        /\ ( capabilities.max_image_count /= 0
             /\ capabilities.min_image_count + 1 > capabilities.max_image_count )
           => image_count = capabilities.max_image_count
        /\ ( capabilities.max_image_count = 0
             \/ capabilities.min_image_count + 1 <= capabilities.max_image_count )
           => image_count = capabilities.min_image_count + 1
        /\ image_count >= capabilities.min_image_count
        /\ capabilities.max_image_count /= 0
              => image_count <= capabilities.max_image_count

C24_Witness ==
    /\ swapchain_result = "Ok"
    /\ capabilities.max_image_count = capabilities.min_image_count
    /\ image_count = capabilities.max_image_count

\* App::initalize ended without Ok: the fields of App are still None.
InitFailed == appState \in {"exited", "panicked"} /\ numImages = 0

\* C25: when a step of initialisation fails, the failure ends the
\* application (the error is printed and the event loop exits, or the panic
\* unwinds), initialisation is not run a second time, and draw_frame is never
\* called: no frame is started then or afterwards.
C25_InitFailureIsFinal ==
    /\ [](InitFailed => (calls = 0 /\ pc = "idle" /\ steps = << >>))
    /\ []((destroyed /= << >> /\ numImages = 0) => InitFailed)
    /\ [][InitFailed => (appState' = appState /\ numImages' = 0 /\ calls' = 0
                          /\ pc' = "idle")]_vars

C25_Witness ==
    /\ appState = "exited"
    /\ numImages = 0
    /\ swapchain_result = "Err"
    /\ destroyed /= << >>

\* C26: whenever the presentation engine takes up a present request, the
\* render pass of that request's frame has run on the image and left it in
\* the presentable layout: the attachment goes UNDEFINED ->
\* COLOR_ATTACHMENT_OPTIMAL -> PRESENT_SRC_KHR, cleared at the start of the
\* pass and stored at its end, and the frame's batch is no longer queued.
C26_PresentableWhenPresented ==
    /\ [](LET a == ColorAttachment(surface_format.format) IN
             /\ a.load_op = "CLEAR" /\ a.store_op = "STORE"
             /\ a.initial_layout = "UNDEFINED"
             /\ a.subpass_layout = "COLOR_ATTACHMENT_OPTIMAL"
             /\ a.final_layout = "PRESENT_SRC_KHR")
    /\ [][PresentExecuted =>
             LET req == Head(presentQ) IN
                /\ image_layout[req.image] = "PRESENT_SRC_KHR"
                /\ \A k \in 1 .. Len(gpuQ) : gpuQ[k].frame /= req.frame]_vars

\* C27: every recording sets render area, viewport and scissor from
\* swapchain.extent, at offset 0 and over the full extent, which is the
\* extent the framebuffers were created with; format and extent of the
\* swapchain never change once it is constructed.
C27_RecordedFromSwapchainExtent ==
    /\ [](recorded /= NoRecording =>
             /\ recorded.render_area = [offset |-> [x |-> 0, y |-> 0], extent |-> extent]
             /\ recorded.scissor = [offset |-> [x |-> 0, y |-> 0], extent |-> extent]
             /\ recorded.viewport.x = 0 /\ recorded.viewport.y = 0
             /\ recorded.viewport.width = extent.width
             /\ recorded.viewport.height = extent.height
             /\ framebuffer_extent = extent)
    /\ [](Len(commands) > 2 => recorded /= NoRecording)
    /\ [][(appState = "running" \/ appState = "closing") =>
             (extent' = extent /\ surface_format' = surface_format
              /\ framebuffer_extent' = framebuffer_extent)]_vars

C27_Witness ==
    /\ pc = "submit"
    /\ capabilities.current_extent = ClientDecides
    /\ window_size.width > capabilities.max_image_extent.width
    /\ window_size.height < capabilities.min_image_extent.height
    /\ recorded.viewport.width = capabilities.max_image_extent.width
    /\ recorded.scissor.extent.height = capabilities.min_image_extent.height

\* The messages build() bails with when a required field is missing.
ValidationErrors ==
    {"render_pass is required", "extent is required",
     "at least one shader stage is required"}

BuildReturned ==
    builder.result \notin {"none", "no builder", "create_shader_module failed"}

\* C28: build() returns an error naming the missing field, and creates no
\* pipeline, when no render pass was set or no shader stage was added; Ok is
\* returned only with both present; and no other builder call reports a
\* missing field: those errors come from build() alone.
C28_BuildValidates ==
    /\ [](BuildReturned =>
             /\ builder.render_pass = "None" =>
                   /\ builder.result = "render_pass is required"
                   /\ "pipeline" \notin builder.objects
             /\ builder.shader_entries = << >> =>
                   /\ builder.result \in ValidationErrors
                   /\ "pipeline" \notin builder.objects
             /\ ( /\ builder.render_pass = "Some" /\ builder.extent = "Some"
                  /\ builder.shader_entries = << >> )
                => builder.result = "at least one shader stage is required"
             /\ builder.result = "Ok" =>
                   /\ builder.render_pass = "Some"
                   /\ builder.shader_entries /= << >>
                   /\ "pipeline" \in builder.objects)
    /\ [][builder'.result \in ValidationErrors =>
             /\ builder.result = "none"
             /\ builder'.render_pass = builder.render_pass
             /\ builder'.extent = builder.extent
             /\ builder'.shader_entries = builder.shader_entries
             /\ builder'.objects = builder.objects]_vars

C28_Witness ==
    /\ builder.result = "at least one shader stage is required"
    /\ builder.render_pass = "Some"
    /\ builder.objects = {}

\* The objects created from the logical device.
DeviceChildren ==
    {"pipeline", "pipeline_layout", "shader_modules", "image_available_semaphores",
     "render_finished_semaphores", "in_flight_fences", "command_pool",
     "framebuffers", "render_pass", "image_views", "swapchain"}

DestroyedBefore(o, p) ==
    \E j \in 1 .. Len(destroyed) : \E k \in 1 .. Len(destroyed) :
        j < k /\ destroyed[j] = o /\ destroyed[k] = p

\* C29: the logical device is destroyed only after every object created from
\* it has been destroyed, on normal teardown and on every path where
\* initialisation fails part-way.
C29_DeviceOutlivesDependents ==
    (\E k \in 1 .. Len(destroyed) : destroyed[k] = "device") =>
        \A o \in created \cap DeviceChildren : DestroyedBefore(o, "device")

\* C30: the renderer cycles through as many frame slots as the sync object
\* pool allocated: the slot index draw_frame passes to wait_for_fence,
\* reset_fence and get_frame_sync_objects is always below the pool's slot
\* count, and no allocated slot lies outside the cycle.
C30_SlotsCycledAreSlotsAllocated ==
    appState = "running" =>
        /\ current_frame \in DOMAIN in_flight_fences
        /\ \A slot \in DOMAIN in_flight_fences : slot < RendererMaxFramesInFlight

\* The fence of slot s is the completion fence of a submission still queued.
FencePending(s) == \E k \in 1 .. Len(gpuQ) : gpuQ[k].fence = s

\* C31: whenever draw_frame is waiting on a slot's fence (on a device that is
\* not lost, where the wait would return an error), the fence is signaled or
\* is the completion fence of a pending submission, so the wait ends once the
\* GPU completes its work, also after earlier draw_frame calls failed at any
\* step.
C31_FenceWaitCanReturn ==
    ( /\ pc = "wait_for_fence"
      /\ current_frame \in DOMAIN in_flight_fences
      /\ ~deviceLost )
    => (in_flight_fences[current_frame] \/ FencePending(current_frame))

\* The last draw_frame call returned its error from acquire_next_image.
ReturnedAtAcquire ==
    pc = "idle" /\ Len(steps) = 2 /\ steps[2][1] = "acquire_next_image"

\* C32: when draw_frame fails at image acquisition, current_frame keeps its
\* value and the fence of the current slot is still signaled (it has not been
\* reset yet), so the fence wait of the next draw_frame call, which is on the
\* same slot, finds it signaled.
C32_AcquireFailureKeepsFence ==
    /\ [][AcquireFailed =>
             /\ current_frame' = current_frame
             /\ in_flight_fences' = in_flight_fences
             /\ in_flight_fences[current_frame]
             /\ ReturnedAtAcquire']_vars
    /\ [](ReturnedAtAcquire => in_flight_fences[current_frame])
    /\ [][(ReturnedAtAcquire /\ pc' = "wait_for_fence") =>
             (current_frame' = current_frame /\ FenceWaitReturns(current_frame)')]_vars

C32_Witness ==
    /\ ReturnedAtAcquire
    /\ ~deviceLost
    /\ errorsReported = 1
    /\ slotLog = << 0, 1, 2 >>
    /\ current_frame = 0
    /\ in_flight_fences[current_frame]

\* A draw_frame call returns an error to render_frame in this step.
ErrorReturned == errorsReported' = errorsReported + 1

\* C33: when draw_frame returns an error at any step (fence wait, acquire,
\* fence reset, record, submit or present), current_frame is left unchanged,
\* and the next draw_frame call starts on the same slot: the slot it passes
\* to wait_for_fence is that unchanged current_frame.
C33_ErrorKeepsSlot ==
    /\ [][ErrorReturned => (current_frame' = current_frame /\ pc' = "idle")]_vars
    /\ [][(pc = "idle" /\ pc' /= "idle") => current_frame' = current_frame]_vars
    /\ [](Len(steps) >= 1 /\ pc /= "idle" =>
             steps[1] = << "wait_for_fence", current_frame >>)

C33_Witness ==
    /\ calls = 2
    /\ pc = "acquire"
    /\ steps = << << "wait_for_fence", 0 >> >>
    /\ errorsReported = 1
    /\ slotLog = << >>
    /\ render_finished_semaphores[0]
    /\ presentQ = << >>
    /\ ~deviceLost

\* C34: whenever draw_frame passes a slot's image-available semaphore to
\* acquire_next_image, the semaphore is unsignaled and no signal operation
\* on it is pending: every earlier signal has been consumed by the wait of a
\* completed submission, after any sequence of successful and failed frames.
C34_AcquireSemaphoreUnsignaled ==
    (pc = "acquire" /\ ~deviceLost) =>
        /\ ~image_available_semaphores[frame_image_semaphore].sig
        /\ image_available_semaphores[frame_image_semaphore].pend = {}

\* A present request that waits on render-finished semaphore s is queued.
PresentWaitPending(s) == \E k \in 1 .. Len(presentQ) : presentQ[k].wait = s

\* C35: whenever a batch that signals a slot's render-finished semaphore is
\* submitted, that semaphore is unsignaled and every earlier present request
\* waiting on it has been executed, under every interleaving of the
\* presentation engine and the CPU.
C35_RenderFinishedFreeAtSubmit ==
    (pc = "submit" /\ ~deviceLost) =>
        /\ ~render_finished_semaphores[current_frame]
        /\ ~PresentWaitPending(current_frame)

\* C36: every image index acquire_next_image returns is an index into both
\* the command buffer array and the framebuffer array: each holds exactly one
\* entry per swapchain image from construction on.
C36_ImageIndexInBounds ==
    /\ [](image_index /= NoImage =>
             /\ image_index \in DOMAIN command_buffers
             /\ image_index \in DOMAIN framebuffers
             /\ framebuffers[image_index] = image_index)
    /\ [](numImages > 0 =>
             /\ DOMAIN command_buffers = 0 .. (numImages - 1)
             /\ DOMAIN framebuffers = 0 .. (numImages - 1))
    /\ [][numImages > 0 =>
             /\ numImages' = numImages
             /\ DOMAIN command_buffers' = DOMAIN command_buffers
             /\ framebuffers' = framebuffers]_vars

C36_Witness ==
    /\ numImages = MaxImages
    /\ pc = "record"
    /\ image_index = MaxImages - 1
    /\ command_buffers[image_index] = "initial"

\* The builder is gone: build() returned, or a with_*_spv call failed and the
\* `?` of the caller dropped the builder.
BuilderGone == builder.result \notin {"none", "no builder"}

\* C37: every shader module created through the builder is destroyed by the
\* time build() returns or the builder is dropped, on the success path and on
\* every failure path.
C37_ShaderModulesDestroyed ==
    BuilderGone => "shader_modules" \notin builder.objects
====
